---- MODULE Spec2Model ----
(***************************************************************************)
(* State-machine model of synthesis_watermelon.py: the frame loop of       *)
(* Game.run, the spawn/cooldown controller, the collision callback and the *)
(* merge resolver.                                                         *)
(*                                                                         *)
(* A Watermelon object is an identifier; its attributes are the record     *)
(* wm[id].  Identifiers are allocated in creation order and never reused   *)
(* within one game, so two pieces are the same only by reference.  Objects *)
(* that nothing refers to any more are dropped from wm, as Python's        *)
(* garbage collector drops them.                                           *)
(*                                                                         *)
(* pymunk itself is an external library.  Space.step is modelled by what   *)
(* the program can observe of it: the bodies registered in the space get   *)
(* new positions, and then the "begin" callback is invoked any number of   *)
(* times, each time for some pair of registered shapes.  Both are          *)
(* nondeterministic choices.                                               *)
(*                                                                         *)
(* Positions are integer pixel coordinates; the sentinel NonFinite stands  *)
(* for a coordinate that is NaN or infinite.  The seconds of cooldown are  *)
(* counted in frames (units of 1/FPS second): in IEEE doubles 1 - 60*(1/60)*)
(* first becomes <= 0 after exactly 60 subtractions, as in exact           *)
(* arithmetic.                                                             *)
(*                                                                         *)
(* Game.run ends in two ways: a QUIT event makes _handle_input call        *)
(* sys.exit(), and _draw raises (int() of a NaN or infinite coordinate)    *)
(* when a live piece is at a non-finite position.  Both leave the frame    *)
(* loop for good: pc "exited" and pc "crashed" have no successor.          *)
(***************************************************************************)
EXTENDS Integers, Sequences, FiniteSets, TLC

\* ---- program constants ------------------------------------------------
WIDTH == 600
HEIGHT == 800
FPS == 60
WAITING == 0
MOVING == 1
STOPPED == 2
MAX_LEVEL == 10
COOLDOWN_TIME == 1
SPEED == 5
SPAWN_Y == 50
BASE_RADIUS == 45
RADIUS_STEP == 8

\* ---- bounds of the model ----------------------------------------------
\* A Release key is only pressed while fewer than MaxBodies piece bodies
\* are registered in the space.
MaxBodies == 2
\* KEYDOWN events delivered by one pygame.event.get() call (a QUIT event
\* ends the sequence and is counted among them).
MaxEvents == 1
\* The arrow keys steer the waiting piece at most MaxShift steps of SPEED
\* pixels away from the spawn column.
MaxShift == 1

\* A coordinate that is not finite (NaN, +inf, -inf).
NonFinite == 999999

\* Where Space.step may leave a body: near the top of the arena (within
\* reach of the spawn point), at the centre of the arena, or nowhere finite.
PhysPositions == {<<310, 130>>, <<300, 400>>}
PhysOutcomes == PhysPositions \cup {<<NonFinite, NonFinite>>}

VARIABLES
    watermelons,   \* Game.watermelons: sequence of piece ids
    wm,            \* attributes of every referenced Watermelon object
    space,         \* ids whose body and shape are registered in Physics.space
    merge_pairs,   \* Physics.merge_pairs: sequence of <<id, id>>
    waiting_wm,    \* Game.waiting_wm
    score,         \* Game.score
    game_over,     \* Game.game_over
    cooldown,      \* Game.cooldown, in frames (1/FPS s)
    can_spawn,     \* Game.can_spawn
    events,        \* events of this frame not yet handled
    todo,          \* rest of the snapshot merge_pairs[:] being iterated
    pc             \* position in the frame loop of Game.run

vars == <<watermelons, wm, space, merge_pairs, waiting_wm, score, game_over,
          cooldown, can_spawn, events, todo, pc>>

game == <<watermelons, wm, space, merge_pairs, waiting_wm, score, game_over,
          cooldown, can_spawn>>

\* ---- helpers ------------------------------------------------------------
Range(s) == {s[i] : i \in DOMAIN s}

Live == Range(watermelons)

Min(a, b) == IF a <= b THEN a ELSE b
Max(a, b) == IF a >= b THEN a ELSE b

SetMax(S) == CHOOSE m \in S : \A n \in S : n <= m

\* math.isfinite
IsFinite(v) == v # NonFinite

\* list.remove(x): drops the first occurrence of x
RemoveFirst(s, x) ==
    LET idx == {i \in DOMAIN s : s[i] = x}
    IN  IF idx = {} THEN s
        ELSE LET k == CHOOSE i \in idx : \A j \in idx : i <= j
             IN  [i \in 1 .. (Len(s) - 1) |-> IF i < k THEN s[i] ELSE s[i + 1]]

\* Variant: the body and shape are not registered.
PhysicsAddDropped(sp, id) == sp

\* Physics.add: space.add(body, shape)
PhysicsAdd(sp, id) == sp \cup {id}

\* Variant: the body and shape stay registered.
PhysicsRemoveKept(sp, id) == sp

\* Physics.remove: space.remove(body, shape)
PhysicsRemove(sp, id) == sp \ {id}

\* Watermelon._calculate_radius
CalculateRadius(level) == BASE_RADIUS + (level - 1) * RADIUS_STEP

\* Variant: the level is stored as given, without the clamp to MAX_LEVEL.
WatermelonUnclamped(pos, level, state) ==
    [level  |-> level,
     radius |-> CalculateRadius(level),
     state  |-> state,
     merged |-> FALSE,
     x      |-> pos[1],
     y      |-> pos[2]]

\* Watermelon.__init__
Watermelon(pos, level, state) ==
    [level  |-> Min(level, MAX_LEVEL),
     radius |-> CalculateRadius(Min(level, MAX_LEVEL)),
     state  |-> state,
     merged |-> FALSE,
     x      |-> pos[1],
     y      |-> pos[2]]

\* Variant: the body is replaced but the state is left as it was.
ConvertToDynamicKeepsState(w) == w

\* Watermelon.convert_to_dynamic
ConvertToDynamic(w) ==
    IF w.state = WAITING THEN [w EXCEPT !.state = MOVING] ELSE w

\* Variant: a WAITING piece is neither clamped nor pinned.
UpdateWmUnclamped(w) ==
    LET fin == IsFinite(w.x) /\ IsFinite(w.y)
    IN  [w EXCEPT !.x = IF fin THEN w.x ELSE WIDTH \div 2,
                  !.y = IF fin THEN w.y ELSE HEIGHT \div 2]

\* Watermelon.update
UpdateWm(w) ==
    LET fin == IsFinite(w.x) /\ IsFinite(w.y)
        x1  == IF fin THEN w.x ELSE WIDTH \div 2
        y1  == IF fin THEN w.y ELSE HEIGHT \div 2
    IN  IF w.state = WAITING
        THEN [w EXCEPT !.x = Max(w.radius, Min(x1, WIDTH - w.radius)),
                       !.y = SPAWN_Y]
        ELSE [w EXCEPT !.x = x1, !.y = y1]

\* Variant: the distance is compared with the radius sum halved.
CheckCollisionHalf(a, b) ==
    /\ IsFinite(a.x) /\ IsFinite(a.y) /\ IsFinite(b.x) /\ IsFinite(b.y)
    /\ 4 * ((a.x - b.x) * (a.x - b.x) + (a.y - b.y) * (a.y - b.y))
         < (a.radius + b.radius) * (a.radius + b.radius)

\* Game._check_collision: hypot(dx, dy) < (r1 + r2) * 0.9, i.e.
\* 100 * (dx^2 + dy^2) < 81 * (r1 + r2)^2; a non-finite distance compares false
CheckCollision(a, b) ==
    /\ IsFinite(a.x) /\ IsFinite(a.y) /\ IsFinite(b.x) /\ IsFinite(b.y)
    /\ 100 * ((a.x - b.x) * (a.x - b.x) + (a.y - b.y) * (a.y - b.y))
         < 81 * (a.radius + b.radius) * (a.radius + b.radius)

\* Variant: the new piece is put where the first piece of the pair was.
MergePosFirst(w1, w2) == <<w1.x, w1.y>>

\* Game._process_merges: new_pos, the midpoint of the two bodies
MergePos(w1, w2) == <<(w1.x + w2.x) \div 2, (w1.y + w2.y) \div 2>>

\* Variant: the score is overwritten with the level just created.
NewScoreLast(s, new_level) == new_level

\* Game._process_merges: self.score = max(self.score, new_level)
NewScore(s, new_level) == Max(s, new_level)

\* Variant: the resolved pair is left in the pending list.
DropPairKept(mp, pair) == mp

\* Game._process_merges: self.physics.merge_pairs.remove((wm1, wm2))
DropPair(mp, pair) == RemoveFirst(mp, pair)

\* A new object never has the identity of one that is still referenced.
FreshId == IF DOMAIN wm = {} THEN 0 ELSE SetMax(DOMAIN wm) + 1

PairIds(ps) == UNION {{ps[i][1], ps[i][2]} : i \in DOMAIN ps}

\* The objects still referenced from the game after a step.
Referenced(w, wt, sp, mp, td) ==
    Range(w) \cup {wt} \cup sp \cup PairIds(mp) \cup PairIds(td)

Collect(f, keep) == [i \in (DOMAIN f) \cap keep |-> f[i]]

\* ---- Game.__init__ ------------------------------------------------------
\* Game._create_waiting_wm: the object it constructs
CreateWaitingWm == Watermelon(<<WIDTH \div 2, SPAWN_Y>>, 1, WAITING)

\* Variant: the piece is constructed in state MOVING.
SpawnWmMoving == Watermelon(<<WIDTH \div 2, SPAWN_Y>>, 1, MOVING)

\* Game._update: the piece constructed when the cooldown has run out
SpawnWm == Watermelon(<<WIDTH \div 2, SPAWN_Y>>, 1, WAITING)

NewGame ==
    /\ watermelons = <<0>>
    /\ wm = (0 :> CreateWaitingWm)
    /\ space = {}
    /\ merge_pairs = <<>>
    /\ waiting_wm = 0
    /\ score = 1
    /\ game_over = FALSE
    /\ cooldown = 0
    /\ can_spawn = TRUE

\* ---- input ---------------------------------------------------------------
\* The KEYDOWN events one pygame.event.get() call can return.  K_DOWN and
\* K_SPACE are the one event "release", K_r is "restart".
Keys(sp) ==
    IF Cardinality(sp) < MaxBodies THEN {"release", "restart"} ELSE {"restart"}

RECURSIVE SeqsUpTo(_, _)
SeqsUpTo(S, n) ==
    IF n = 0 THEN {<<>>}
    ELSE LET shorter == SeqsUpTo(S, n - 1)
         IN  shorter \cup {Append(s, k) : s \in shorter, k \in S}

\* What one pygame.event.get() call can return: KEYDOWN events, possibly
\* ended by a QUIT event (no event behind a QUIT is ever looked at).
EventSeqs(sp) ==
    SeqsUpTo(Keys(sp), MaxEvents)
        \cup {Append(s, "quit") : s \in SeqsUpTo(Keys(sp), MaxEvents - 1)}

Init ==
    /\ NewGame
    /\ events \in EventSeqs({})
    /\ todo = <<>>
    /\ pc = "input"

\* Variant: the release is attempted whatever the state of the controller.
ReleaseBlockedNever == FALSE

\* Game._release_wm: the guard of its early return
ReleaseBlocked == ~can_spawn \/ wm[waiting_wm].state # WAITING

\* Variant: the release leaves the counter as it is.
CooldownKept == cooldown

\* Game._release_wm: self.cooldown = COOLDOWN_TIME, in frames
CooldownReset == COOLDOWN_TIME * FPS

\* Game._release_wm
ReleaseWm ==
    IF ReleaseBlocked
    THEN UNCHANGED game
    ELSE IF \E i \in DOMAIN watermelons :
                /\ watermelons[i] # waiting_wm
                /\ CheckCollision(wm[watermelons[i]], wm[waiting_wm])
         THEN /\ game_over' = TRUE
              /\ UNCHANGED <<watermelons, wm, space, merge_pairs, waiting_wm,
                             score, cooldown, can_spawn>>
         ELSE /\ wm' = [wm EXCEPT ![waiting_wm] = ConvertToDynamic(@)]
              /\ space' = PhysicsAdd(space, waiting_wm)
              /\ can_spawn' = FALSE
              /\ cooldown' = CooldownReset
              /\ UNCHANGED <<watermelons, merge_pairs, waiting_wm, score,
                             game_over>>

\* Game._handle_input, one KEYDOWN event with key K_DOWN or K_SPACE
KeyRelease ==
    /\ pc = "input"
    /\ events # <<>>
    /\ Head(events) = "release"
    /\ events' = Tail(events)
    /\ IF ~game_over THEN ReleaseWm ELSE UNCHANGED game
    /\ UNCHANGED <<todo, pc>>

\* Variant: K_r restarts the game whether or not it is over.
RestartAllowedAlways == TRUE

\* Game._handle_input: the guard self.game_over of the K_r branch
RestartAllowed == game_over

\* Game._handle_input, one KEYDOWN event with key K_r: self.__init__()
KeyRestart ==
    /\ pc = "input"
    /\ events # <<>>
    /\ Head(events) = "restart"
    /\ events' = Tail(events)
    /\ IF RestartAllowed
       THEN /\ watermelons' = <<0>>
            /\ wm' = (0 :> CreateWaitingWm)
            /\ space' = {}
            /\ merge_pairs' = <<>>
            /\ waiting_wm' = 0
            /\ score' = 1
            /\ game_over' = FALSE
            /\ cooldown' = 0
            /\ can_spawn' = TRUE
       ELSE UNCHANGED game
    /\ UNCHANGED <<todo, pc>>

\* Variant: the state of the tracked piece is not tested.
SteerableAnyState == ~game_over

\* Game._handle_input: the guard of the arrow keys
Steerable == ~game_over /\ wm[waiting_wm].state = WAITING

\* Game._handle_input, one QUIT event: pygame.quit(); sys.exit()
KeyQuit ==
    /\ pc = "input"
    /\ events # <<>>
    /\ Head(events) = "quit"
    /\ events' = Tail(events)
    /\ pc' = "exited"
    /\ UNCHANGED <<game, todo>>

\* Game._handle_input after the event loop, with keys[K_LEFT] = left and
\* keys[K_RIGHT] = right; then Game.run goes on to _update or to _draw
HandleKeys(left, right) ==
    /\ pc = "input"
    /\ events = <<>>
    /\ IF Steerable
       THEN wm' = [wm EXCEPT ![waiting_wm].x =
                      @ - (IF left THEN SPEED ELSE 0)
                        + (IF right THEN SPEED ELSE 0)]
       ELSE wm' = wm
    /\ pc' = IF game_over THEN "draw" ELSE "update"
    /\ UNCHANGED <<watermelons, space, merge_pairs, waiting_wm, score,
                   game_over, cooldown, can_spawn, events, todo>>

\* The tracked piece stays within MaxShift steps of the spawn column.
WithinReach(left, right) ==
    LET x1 == wm[waiting_wm].x - (IF left THEN SPEED ELSE 0)
                               + (IF right THEN SPEED ELSE 0)
    IN  /\ x1 >= WIDTH \div 2 - MaxShift * SPEED
        /\ x1 <= WIDTH \div 2 + MaxShift * SPEED

\* any combination of the two arrow keys held down
KeysPressed ==
    \E left, right \in BOOLEAN :
        /\ (left \/ right) => WithinReach(left, right)
        /\ HandleKeys(left, right)


\* ---- Game._update ----------------------------------------------------------
\* lines 268-269: wm.update() for every piece of the live collection
UpdatePieces(w, f) ==
    [i \in DOMAIN f |-> IF i \in Range(w) THEN UpdateWm(f[i]) ELSE f[i]]

\* The rest of _update once the cooldown block has left the live collection
\* w, the objects f and the tracked piece wt: update every piece, then enter
\* _process_merges, whose loop iterates over the copy merge_pairs[:].
FinishUpdate(w, f, wt) ==
    /\ watermelons' = w
    /\ waiting_wm' = wt
    /\ wm' = Collect(UpdatePieces(w, f),
                     Referenced(w, wt, space, merge_pairs, merge_pairs))
    /\ todo' = merge_pairs
    /\ pc' = IF merge_pairs = <<>> THEN "step" ELSE "merges"
    /\ UNCHANGED <<space, merge_pairs, score, events>>

\* _update while spawning is allowed: the cooldown block is skipped
UpdateIdle ==
    /\ pc = "update"
    /\ can_spawn
    /\ FinishUpdate(watermelons, wm, waiting_wm)
    /\ UNCHANGED <<cooldown, can_spawn, game_over>>

\* _update during the cooldown, the counter staying positive
CooldownTick ==
    /\ pc = "update"
    /\ ~can_spawn
    /\ cooldown - 1 > 0
    /\ cooldown' = cooldown - 1
    /\ FinishUpdate(watermelons, wm, waiting_wm)
    /\ UNCHANGED <<can_spawn, game_over>>

\* _update on the frame the counter reaches <= 0: lines 256-267
SpawnAttempt ==
    /\ pc = "update"
    /\ ~can_spawn
    /\ cooldown - 1 <= 0
    /\ cooldown' = cooldown - 1
    /\ can_spawn' = TRUE
    /\ LET id     == FreshId
           new_wm == SpawnWm
           safe   == \A i \in DOMAIN watermelons :
                        ~CheckCollision(new_wm, wm[watermelons[i]])
       IN  IF safe
           THEN /\ game_over' = game_over
                /\ FinishUpdate(Append(watermelons, id), wm @@ (id :> new_wm), id)
           ELSE /\ game_over' = TRUE
                /\ FinishUpdate(watermelons, wm, waiting_wm)

\* ---- Game._process_merges, one iteration of the loop ------------------------
\* The pair (wm1, wm2) is merged when both pieces are in the live collection
\* and passed over, staying in merge_pairs, when they are not.
\* physics.remove is applied to registered bodies only (see BodiesRegistered).
ProcessPair ==
    /\ pc = "merges"
    /\ todo # <<>>
    /\ LET wm1 == Head(todo)[1]
           wm2 == Head(todo)[2]
       IN  IF wm1 \in Live /\ wm2 \in Live
           THEN LET new_pos   == MergePos(wm[wm1], wm[wm2])
                    new_level == wm[wm1].level + 1
                    id        == FreshId
                    new_wm    == Watermelon(new_pos, new_level, MOVING)
                    w1        == Append(RemoveFirst(RemoveFirst(watermelons, wm1),
                                                    wm2), id)
                    sp1       == PhysicsAdd(PhysicsRemove(PhysicsRemove(space, wm1),
                                                               wm2), id)
                    mp1       == DropPair(merge_pairs, <<wm1, wm2>>)
                IN  /\ watermelons' = w1
                    /\ space' = sp1
                    /\ merge_pairs' = mp1
                    /\ score' = NewScore(score, new_level)
                    /\ wm' = Collect(wm @@ (id :> new_wm),
                                     Referenced(w1, waiting_wm, sp1, mp1, Tail(todo)))
           ELSE /\ wm' = Collect(wm, Referenced(watermelons, waiting_wm, space,
                                                merge_pairs, Tail(todo)))
                /\ UNCHANGED <<watermelons, space, merge_pairs, score>>
    /\ todo' = Tail(todo)
    /\ pc' = IF Tail(todo) = <<>> THEN "step" ELSE "merges"
    /\ UNCHANGED <<waiting_wm, game_over, cooldown, can_spawn, events>>

\* ---- Physics.step -----------------------------------------------------------
\* Variant: the levels are not compared.
CollisionHandlerAnyLevel(f, mp, c) ==
    LET wm1 == c[1]
        wm2 == c[2]
    IN  IF /\ ~f[wm1].merged
           /\ ~f[wm2].merged
           /\ f[wm1].state # WAITING
           /\ f[wm2].state # WAITING
        THEN [wm    |-> [f EXCEPT ![wm1].merged = TRUE, ![wm2].merged = TRUE],
              pairs |-> Append(mp, <<wm1, wm2>>)]
        ELSE [wm |-> f, pairs |-> mp]

\* Variant: the merged flags are not consulted.
CollisionHandlerUnflagged(f, mp, c) ==
    LET wm1 == c[1]
        wm2 == c[2]
    IN  IF /\ f[wm1].level = f[wm2].level
           /\ f[wm1].state # WAITING
           /\ f[wm2].state # WAITING
        THEN [wm    |-> [f EXCEPT ![wm1].merged = TRUE, ![wm2].merged = TRUE],
              pairs |-> Append(mp, <<wm1, wm2>>)]
        ELSE [wm |-> f, pairs |-> mp]

\* collision_handler, the "begin" callback, for the shapes of pieces c[1], c[2]
CollisionHandler(f, mp, c) ==
    LET wm1 == c[1]
        wm2 == c[2]
    IN  IF /\ f[wm1].level = f[wm2].level
           /\ ~f[wm1].merged
           /\ ~f[wm2].merged
           /\ f[wm1].state # WAITING
           /\ f[wm2].state # WAITING
        THEN [wm    |-> [f EXCEPT ![wm1].merged = TRUE, ![wm2].merged = TRUE],
              pairs |-> Append(mp, <<wm1, wm2>>)]
        ELSE [wm |-> f, pairs |-> mp]

\* Physics.step up to the collision phase of Space.step: bodies at a
\* non-finite position are removed from the space, the others are moved
PhysicsStep ==
    /\ pc = "step"
    /\ LET evicted == {i \in space : ~IsFinite(wm[i].x) \/ ~IsFinite(wm[i].y)}
           sp1     == space \ evicted
       IN  /\ space' = sp1
           /\ \E newpos \in [sp1 -> PhysOutcomes] :
                 wm' = [i \in DOMAIN wm |->
                          IF i \in sp1
                          THEN [wm[i] EXCEPT !.x = newpos[i][1],
                                             !.y = newpos[i][2]]
                          ELSE wm[i]]
    /\ pc' = "contacts"
    /\ UNCHANGED <<watermelons, merge_pairs, waiting_wm, score, game_over,
                   cooldown, can_spawn, events, todo>>

\* Space.step reports that two registered shapes begin to touch
BeginContact ==
    /\ pc = "contacts"
    /\ \E c \in space \X space :
          /\ c[1] # c[2]
          /\ LET r == CollisionHandler(wm, merge_pairs, c)
             IN  /\ wm' = r.wm
                 /\ merge_pairs' = r.pairs
    /\ UNCHANGED <<watermelons, space, waiting_wm, score, game_over, cooldown,
                   can_spawn, events, todo, pc>>

\* Space.step and Physics.step return
StepDone ==
    /\ pc = "contacts"
    /\ pc' = "draw"
    /\ UNCHANGED <<game, events, todo>>

\* ---- Game._draw, clock.tick and the next pygame.event.get() -----------------
\* Watermelon.draw converts the position of every live piece with int(),
\* which raises for a NaN or an infinite coordinate: the exception leaves
\* Game.run.
Draw ==
    /\ pc = "draw"
    /\ IF \E p \in Live : ~IsFinite(wm[p].x) \/ ~IsFinite(wm[p].y)
       THEN /\ pc' = "crashed"
            /\ events' = events
       ELSE /\ pc' = "input"
            /\ events' \in EventSeqs(space)
    /\ UNCHANGED <<game, todo>>

Next ==
    \/ KeyRelease
    \/ KeyRestart
    \/ KeyQuit
    \/ KeysPressed
    \/ UpdateIdle
    \/ CooldownTick
    \/ SpawnAttempt
    \/ ProcessPair
    \/ PhysicsStep
    \/ BeginContact
    \/ StepDone
    \/ Draw

Spec == Init /\ [][Next]_vars

\* ---- a game in progress ----------------------------------------------------
\* Levels of the pieces already lying in the arena at the start of a frame.
SeedArenas ==
    {<<l, l>> : l \in 1 .. MAX_LEVEL}
        \cup {<<1, 1, 1>>, <<3, 1, 1>>}

\* The start of a frame in the middle of a game: the pieces of the arena
\* have been released earlier or created by merges (so the score is the
\* highest level among them), no contact is pending, and the latest piece
\* created is waiting at the spawn point.
InitPlay ==
    \E lv \in SeedArenas :
      \E at \in [DOMAIN lv -> PhysPositions] :
        LET k == Len(lv)
        IN  /\ watermelons = [i \in 1 .. (k + 1) |-> i - 1]
            /\ wm = [i \in 0 .. k |->
                        IF i = k THEN CreateWaitingWm
                        ELSE Watermelon(at[i + 1], lv[i + 1], MOVING)]
            /\ space = 0 .. (k - 1)
            /\ merge_pairs = <<>>
            /\ waiting_wm = k
            /\ score = SetMax(Range(lv))
            /\ game_over = FALSE
            /\ cooldown = 0
            /\ can_spawn = TRUE
            /\ events \in EventSeqs(0 .. (k - 1))
            /\ todo = <<>>
            /\ pc = "input"

SpecPlay == InitPlay /\ [][Next]_vars

\* ---- aiming along the walls -------------------------------------------------
\* The start of a frame of a new game in which an arrow key has been held
\* down until the waiting piece came to rest against the left or the right
\* wall.
InitAim ==
    \E x0 \in {CreateWaitingWm.radius, WIDTH - CreateWaitingWm.radius} :
        /\ watermelons = <<0>>
        /\ wm = (0 :> [CreateWaitingWm EXCEPT !.x = x0])
        /\ space = {}
        /\ merge_pairs = <<>>
        /\ waiting_wm = 0
        /\ score = 1
        /\ game_over = FALSE
        /\ cooldown = 0
        /\ can_spawn = TRUE
        /\ events \in EventSeqs({})
        /\ todo = <<>>
        /\ pc = "input"

\* The arrow keys leave the tracked piece within MaxShift steps of SPEED
\* pixels of the place where it touches a wall, on either side of that place.
NearWall(left, right) ==
    LET x1 == wm[waiting_wm].x - (IF left THEN SPEED ELSE 0)
                               + (IF right THEN SPEED ELSE 0)
        r  == wm[waiting_wm].radius
    IN  \/ x1 <= r + MaxShift * SPEED
        \/ x1 >= WIDTH - r - MaxShift * SPEED

\* any combination of the two arrow keys held down, along the walls
KeysAim ==
    \E left, right \in BOOLEAN :
        /\ (left \/ right) => NearWall(left, right)
        /\ HandleKeys(left, right)

NextAim ==
    \/ KeyRelease
    \/ KeyRestart
    \/ KeyQuit
    \/ KeysAim
    \/ UpdateIdle
    \/ CooldownTick
    \/ SpawnAttempt
    \/ ProcessPair
    \/ PhysicsStep
    \/ BeginContact
    \/ StepDone
    \/ Draw

SpecAim == InitAim /\ [][NextAim]_vars

TypeOK ==
    /\ Live \subseteq DOMAIN wm
    /\ space \subseteq DOMAIN wm
    /\ waiting_wm \in DOMAIN wm
    /\ score \in 1 .. (MAX_LEVEL + 1)
    /\ cooldown \in 0 .. (COOLDOWN_TIME * FPS)
    /\ pc \in {"input", "update", "merges", "step", "contacts", "draw",
              "exited", "crashed"}

\* ---- consistency of the model ---------------------------------------------
\* physics.remove in _process_merges is only reached for registered bodies
\* (pymunk raises for any other), so removing them is a plain set difference.
BodiesRegistered ==
    (pc = "merges" /\ todo # <<>>
        /\ Head(todo)[1] \in Live /\ Head(todo)[2] \in Live)
    => (Head(todo)[1] \in space /\ Head(todo)[2] \in space)

\* The midpoint computed by _process_merges is a whole number of pixels
\* wherever the model computes one.
MidpointExact ==
    (pc = "merges" /\ todo # <<>>
        /\ Head(todo)[1] \in Live /\ Head(todo)[2] \in Live)
    => LET a == wm[Head(todo)[1]]
           b == wm[Head(todo)[2]]
       IN  /\ IsFinite(a.x) /\ IsFinite(a.y) /\ IsFinite(b.x) /\ IsFinite(b.y)
           /\ (a.x + b.x) % 2 = 0
           /\ (a.y + b.y) % 2 = 0

\* ---- vocabulary of the properties -----------------------------------------
WaitingCount ==
    Cardinality({i \in DOMAIN watermelons : wm[watermelons[i]].state = WAITING})

\* centre distance < 0.9 x (sum of the radii), for finite positions
Overlaps(a, b) ==
    100 * ((a.x - b.x) * (a.x - b.x) + (a.y - b.y) * (a.y - b.y))
        < 81 * (a.radius + b.radius) * (a.radius + b.radius)

FinitePos(a) == a.x # NonFinite /\ a.y # NonFinite

\* the step about to be taken is the K_r event that restarts a finished game
RestartStep ==
    pc = "input" /\ events # <<>> /\ Head(events) = "restart" /\ game_over

\* the step about to be taken is _release_wm
ReleaseStep ==
    pc = "input" /\ events # <<>> /\ Head(events) = "release" /\ ~game_over

\* the step about to be taken resolves the pending pair <<a, b>>
ResolveStep(a, b) ==
    /\ pc = "merges" /\ todo # <<>> /\ Head(todo) = <<a, b>>
    /\ a \in Live /\ b \in Live

\* ---- C1 ---------------------------------------------------------------------
\* C1: in every reachable state the live collection holds at most one piece
\* whose state is WAITING.
C1_AtMostOneWaiting == WaitingCount <= 1

\* a second piece is waiting above an arena that already holds a body
C1_Witness ==
    /\ WaitingCount = 1
    /\ waiting_wm # 0
    /\ wm[waiting_wm].state = WAITING
    /\ space # {}
    /\ ~game_over

\* ---- C2 ---------------------------------------------------------------------
\* C2: resolving a pending pair (a, b) of live pieces of level L < 10 removes
\* a and b from the live collection and from the space, adds exactly one new
\* piece to both, of level L + 1, MOVING, not merged, at the midpoint of a and
\* b; the live count drops by one and every other piece is left as it was.
C2_MergeEffect ==
    [][\A a, b \in DOMAIN wm :
         (ResolveStep(a, b) /\ wm[a].level < MAX_LEVEL) =>
            \E n \in (DOMAIN wm') \ (DOMAIN wm) :
               /\ Range(watermelons') = (Live \ {a, b}) \cup {n}
               /\ Len(watermelons') = Len(watermelons) - 1
               /\ space' = (space \ {a, b}) \cup {n}
               /\ a \notin space' /\ b \notin space'
               /\ wm'[n].level = wm[a].level + 1
               /\ wm'[n].state = MOVING
               /\ wm'[n].merged = FALSE
               /\ 2 * wm'[n].x = wm[a].x + wm[b].x
               /\ 2 * wm'[n].y = wm[a].y + wm[b].y
               /\ \A p \in Live \ {a, b} : wm'[p] = wm[p]
      ]_vars

\* two level-4 pieces lying apart have just been merged into a level-5 piece
\* half way between them
C2_Witness ==
    /\ pc = "step"
    /\ Len(watermelons) = 2
    /\ score = 5
    /\ \E n \in Live \cap space :
          /\ wm[n].level = 5
          /\ wm[n].x = 305 /\ wm[n].y = 265
          /\ ~wm[n].merged

\* ---- C3 ---------------------------------------------------------------------
\* C3: no piece takes part in more than one merge: a piece occurs in at most
\* one pending pair, a pair is only ever enqueued for pieces whose flags were
\* clear, a flag once set stays set for as long as the piece exists, and a
\* piece that has left the live collection never comes back.
PairOccurrences(p) ==
    Cardinality({i \in DOMAIN merge_pairs : merge_pairs[i][1] = p})
        + Cardinality({i \in DOMAIN merge_pairs : merge_pairs[i][2] = p})

C3_SingleMerge ==
    /\ [](\A p \in DOMAIN wm : PairOccurrences(p) <= 1)
    /\ [][~RestartStep =>
            /\ \A p \in (DOMAIN wm) \cap (DOMAIN wm') :
                  /\ wm[p].merged => wm'[p].merged
                  /\ (wm[p].merged /\ p \in PairIds(merge_pairs'))
                        => p \in PairIds(merge_pairs)
                  /\ (p \notin Live) => (p \notin Range(watermelons'))
            /\ \A p \in PairIds(merge_pairs') \ PairIds(merge_pairs) :
                  p \in DOMAIN wm /\ ~wm[p].merged
       ]_vars

\* a flagged piece, pending in a pair, shares the space with a third piece
\* of its level whose flag is clear
C3_Witness ==
    /\ Len(merge_pairs) = 1
    /\ \E c \in space :
          /\ ~wm[c].merged
          /\ c \notin PairIds(merge_pairs)
          /\ wm[c].level = wm[merge_pairs[1][1]].level
          /\ wm[merge_pairs[1][1]].merged

\* ---- C4 ---------------------------------------------------------------------
\* C4: a release, while spawning is allowed and the tracked piece is WAITING,
\* with another live piece closer than 0.9 x the radius sum, sets game_over
\* and changes nothing else.
C4_ReleaseOverlap ==
    [][(/\ ReleaseStep
        /\ can_spawn
        /\ wm[waiting_wm].state = WAITING
        /\ \E p \in Live \ {waiting_wm} :
              FinitePos(wm[p]) /\ Overlaps(wm[p], wm[waiting_wm]))
       => /\ game_over'
          /\ wm'[waiting_wm].state = WAITING
          /\ waiting_wm \notin space'
          /\ UNCHANGED <<watermelons, wm, space, merge_pairs, waiting_wm,
                         score, cooldown, can_spawn>>
      ]_vars

\* the game has ended on a release: the tracked piece is still waiting,
\* moved off the spawn column, and is registered nowhere
C4_Witness ==
    /\ game_over
    /\ can_spawn
    /\ wm[waiting_wm].state = WAITING
    /\ wm[waiting_wm].x # WIDTH \div 2
    /\ waiting_wm \in Live
    /\ waiting_wm \notin space

\* ---- C5 ---------------------------------------------------------------------
\* C5: on the frame the cooldown counter reaches <= 0, if a level-1 piece at
\* (300, 50) would overlap a live piece then game_over becomes true, the live
\* collection gains no piece and the tracked piece is not replaced; otherwise
\* exactly one WAITING level-1 piece at (300, 50) joins the live collection
\* and becomes the tracked piece, with spawning allowed again.
SpawnProbe == [x |-> 300, y |-> 50, radius |-> 45]

C5_SpawnOrGameOver ==
    [][(pc = "update" /\ ~can_spawn /\ cooldown - 1 <= 0) =>
         IF \E p \in Live : FinitePos(wm[p]) /\ Overlaps(SpawnProbe, wm[p])
         THEN /\ game_over'
              /\ watermelons' = watermelons
              /\ waiting_wm' = waiting_wm
         ELSE /\ ~game_over'
              /\ can_spawn'
              /\ \E n \in (DOMAIN wm') \ (DOMAIN wm) :
                    /\ watermelons' = Append(watermelons, n)
                    /\ waiting_wm' = n
                    /\ wm'[n].state = WAITING
                    /\ wm'[n].level = 1
                    /\ wm'[n].x = 300 /\ wm'[n].y = 50
      ]_vars

\* the spawn point was occupied when the cooldown ran out: the game is over
\* and no piece is waiting
C5_Witness ==
    /\ game_over
    /\ can_spawn
    /\ cooldown = 0
    /\ wm[waiting_wm].state = MOVING
    /\ WaitingCount = 0

\* ---- C6 ---------------------------------------------------------------------
\* C6: from the moment game_over is true until a restart, no piece is added
\* to the live collection, no merge is resolved and the score does not change,
\* pairs enqueued before game_over was set included.
C6_FrozenAfterGameOver ==
    [][(game_over /\ ~RestartStep) =>
          /\ watermelons' = watermelons
          /\ score' = score
      ]_vars

\* ---- C7 ---------------------------------------------------------------------
\* C7: Physics.step is never executed in a state where game_over is true, and
\* game_over goes from true to false only through a restart.
C7_NoStepAfterGameOver ==
    /\ [](pc = "step" => ~game_over)
    /\ [][(game_over /\ ~game_over') => RestartStep]_vars

\* ---- C8 ---------------------------------------------------------------------
\* C8: the score is always >= 1 and, except across a restart, never decreases
\* from one state to the next.
C8_ScoreMonotone ==
    /\ [](score >= 1)
    /\ [][~RestartStep => score' >= score]_vars

\* a level-2 piece has been created by a merge in a game whose score is 3
C8_Witness ==
    /\ score = 3
    /\ \E n \in Live \cap space : wm[n].level = 2 /\ wm[n].x = 305

\* ---- C9 ---------------------------------------------------------------------
\* C9: the score equals the highest level of any piece created by a merge
\* since the (re)start, or 1 if there has been no merge.  Pieces above level 1
\* come from merges only, and the piece of the highest level leaves the live
\* collection only by being merged into one that is at least as high, so that
\* level is the highest level among the live pieces.
C9_ScoreIsTopMergedLevel ==
    score = SetMax({wm[p].level : p \in Live})

\* ---- C10 --------------------------------------------------------------------
\* C10: every piece that exists has a level in 1 .. 10 and the radius
\* 45 + (level - 1) * 8.
C10_LevelAndRadius ==
    \A p \in DOMAIN wm :
        /\ wm[p].level \in 1 .. 10
        /\ wm[p].radius = 45 + (wm[p].level - 1) * 8

\* two level-10 pieces have been merged: the piece created is in the space
\* half way between them
C10_Witness ==
    /\ score = 11
    /\ \E n \in Live \cap space :
          /\ wm[n].level = 10
          /\ wm[n].radius = 117
          /\ wm[n].x = 305 /\ wm[n].y = 265

\* ---- C11 --------------------------------------------------------------------
\* C11 as stated: in every state between operations every piece of the live
\* collection, WAITING pieces included, has its body registered in the space.
C11_EveryLiveRegistered ==
    \A p \in Live : p \in space

\* C11: in every state between operations a piece of the live collection has
\* its body registered in the space exactly when its state is not WAITING:
\* the waiting piece is registered by the release that makes it MOVING, a
\* merged piece on creation.
C11_LiveRegisteredOnceReleased ==
    \A p \in Live : (p \in space) <=> (wm[p].state # WAITING)

\* two released pieces lie in the space while a third one waits, unregistered
C11_Witness ==
    /\ Cardinality(space) = 2
    /\ space \subseteq Live
    /\ \A p \in space : wm[p].state = MOVING
    /\ waiting_wm \in Live \ space
    /\ wm[waiting_wm].state = WAITING

\* ---- C12 --------------------------------------------------------------------
\* C12: when a pass of _process_merges has ended the pending list is empty,
\* and during the pass the list holds exactly the pairs the pass has not yet
\* visited: every pair visited is resolved and removed, none is left behind.
C12_PassDrainsPairs ==
    /\ (pc = "step" => merge_pairs = <<>>)
    /\ (pc = "merges" => merge_pairs = todo)

\* a pass has just merged two of three level-1 pieces and left nothing pending
C12_Witness ==
    /\ pc = "step"
    /\ merge_pairs = <<>>
    /\ Len(watermelons) = 3
    /\ \E n, q \in Live \cap space :
          /\ wm[n].level = 2 /\ ~wm[n].merged
          /\ wm[n].x = 305 /\ wm[n].y = 265
          /\ wm[q].level = 1

\* ---- C13 --------------------------------------------------------------------
\* C13: within a frame merge resolution follows the physics step and precedes
\* rendering, so every pair enqueued by a frame's physics step is resolved in
\* that same frame: whenever a frame of a game that is not over is rendered,
\* no pair is pending and no live piece is flagged merged.
C13_ResolvedBeforeRender ==
    (pc = "draw" /\ ~game_over) =>
        /\ merge_pairs = <<>>
        /\ \A p \in Live : ~wm[p].merged

\* ---- C14 --------------------------------------------------------------------
\* the step about to be taken handles a K_r event
RestartKey ==
    pc = "input" /\ events # <<>> /\ Head(events) = "restart"

\* the state a restart leaves: that of a newly constructed game
FreshGameNext ==
    /\ score' = 1
    /\ ~game_over'
    /\ can_spawn'
    /\ cooldown' = 0
    /\ merge_pairs' = <<>>
    /\ space' = {}
    /\ Len(watermelons') = 1
    /\ waiting_wm' = watermelons'[1]
    /\ wm'[watermelons'[1]] =
          [level |-> 1, radius |-> 45, state |-> WAITING, merged |-> FALSE,
           x |-> 300, y |-> 50]

\* C14 as stated: a Restart input reinitializes the game in any state,
\* whether the game is over or not.
C14_RestartAlways ==
    [][RestartKey => FreshGameNext]_vars

\* C14: a Restart input received while game_over is true reinitializes the
\* whole game (score 1, not over, spawning allowed, cooldown 0, nothing
\* pending, no body in the space, one live piece, WAITING, level 1, at
\* (300, 50)); received while the game is not over it changes nothing.
C14_RestartWhenOver ==
    [][RestartKey =>
          IF game_over THEN FreshGameNext ELSE UNCHANGED game]_vars

\* a game that had bodies in the arena has been restarted
C14_Witness ==
    /\ watermelons = <<0>>
    /\ waiting_wm = 0
    /\ wm[0].state = WAITING
    /\ space = {}
    /\ merge_pairs = <<>>
    /\ score = 1
    /\ ~game_over
    /\ can_spawn
    /\ cooldown = 0

\* ---- C15 --------------------------------------------------------------------
\* the step about to be taken handles a K_DOWN or K_SPACE event
ReleaseKey ==
    pc = "input" /\ events # <<>> /\ Head(events) = "release"

\* C15: a Release input received while can_spawn is false or the tracked
\* piece is not WAITING changes nothing: no piece changes state, nothing is
\* registered, cooldown, can_spawn, score and game_over stay as they are.  A
\* piece is released only by a Release input received with can_spawn true,
\* which leaves can_spawn false, so that no second piece is released before
\* the cooldown has run out.
C15_ReleaseOutsideIdle ==
    [][/\ (ReleaseKey /\ (~can_spawn \/ wm[waiting_wm].state # WAITING))
            => UNCHANGED game
       /\ \A p \in (DOMAIN wm) \cap (DOMAIN wm') :
             (wm[p].state = WAITING /\ wm'[p].state # WAITING) =>
                /\ ReleaseKey
                /\ can_spawn /\ ~can_spawn'
                /\ p = waiting_wm
                /\ space' = space \cup {p}
      ]_vars

\* a Release input is about to be handled in the middle of a cooldown
C15_Witness ==
    /\ ReleaseKey
    /\ ~game_over
    /\ ~can_spawn
    /\ cooldown > 0 /\ cooldown < COOLDOWN_TIME * FPS
    /\ wm[waiting_wm].state = MOVING
    /\ waiting_wm \in space

\* ---- C16 --------------------------------------------------------------------
\* C16: a successful release sets the counter to COOLDOWN_TIME x FPS = 60
\* frames.  While can_spawn is false the game is not over, no piece is
\* WAITING and the counter is in 1 .. 60; every frame processed runs _update,
\* which takes one frame off the counter and nothing else does.  The _update
\* that brings the counter to <= 0, the 60th after the release, sets
\* can_spawn and either tracks a new WAITING piece or sets game_over; every
\* earlier one leaves can_spawn false, the game not over and the live
\* collection without a new piece.
C16_CooldownElapses ==
    /\ [](~can_spawn =>
            /\ cooldown \in 1 .. 60
            /\ ~game_over
            /\ WaitingCount = 0)
    /\ [][/\ (can_spawn /\ ~can_spawn') => (ReleaseKey /\ cooldown' = 60)
          /\ (~can_spawn /\ pc = "input" /\ pc' \notin {pc, "exited"}) =>
                pc' = "update"
          /\ (~can_spawn /\ pc # "update") =>
                (~can_spawn' /\ cooldown' = cooldown /\ ~game_over')
          /\ (~can_spawn /\ pc = "update") =>
                /\ cooldown' = cooldown - 1
                /\ IF cooldown > 1
                   THEN /\ ~can_spawn'
                        /\ ~game_over'
                        /\ watermelons' = watermelons
                        /\ waiting_wm' = waiting_wm
                   ELSE /\ can_spawn'
                        /\ \/ game_over'
                           \/ /\ waiting_wm' # waiting_wm
                              /\ waiting_wm' \in Range(watermelons')
                              /\ wm'[waiting_wm'].state = WAITING
         ]_vars

\* The same as a liveness property: Game.run is a "while True" loop, which
\* takes its next step for as long as it has neither exited nor crashed, so
\* every cooldown comes to its end unless the program stops first.
SpecFair == Spec /\ WF_vars(Next)

CooldownEnds ==
    ~can_spawn ~>
        \/ can_spawn /\ (game_over \/ wm[waiting_wm].state = WAITING)
        \/ pc \in {"exited", "crashed"}

\* the cooldown has just run out over a free spawn point: a new piece is
\* tracked and waiting
C16_Witness ==
    /\ pc = "step"
    /\ can_spawn
    /\ cooldown = 0
    /\ ~game_over
    /\ waiting_wm # 0
    /\ wm[waiting_wm].state = WAITING
    /\ waiting_wm \in Live \ space
    /\ 0 \in space

\* ---- C17 --------------------------------------------------------------------
\* the circle of piece a lies between the left and the right wall
InsideWalls(a) ==
    a.radius <= a.x /\ a.x <= WIDTH - a.radius

\* C17: whatever arrow keys are held down, whenever a frame is rendered and
\* whenever a Release input is handled, a WAITING piece of the live
\* collection is at y = 50 with radius <= x <= WIDTH - radius; and a piece
\* that is released enters the space at y = 50 with its circle between the
\* walls.
C17_WaitingInsideWalls ==
    /\ []((pc = "draw" \/ ReleaseKey) =>
            \A p \in Live :
                wm[p].state = WAITING =>
                    (wm[p].y = 50 /\ InsideWalls(wm[p])))
    /\ [][\A p \in (DOMAIN wm) \cap (DOMAIN wm') :
             (wm[p].state = WAITING /\ wm'[p].state # WAITING) =>
                /\ p \in space'
                /\ wm'[p].y = 50
                /\ InsideWalls(wm'[p])
         ]_vars

\* an arrow key has pushed the waiting piece into a wall and _update is about
\* to run
C17_Witness ==
    /\ pc = "update"
    /\ wm[waiting_wm].state = WAITING
    /\ ~InsideWalls(wm[waiting_wm])

\* ---- C18 --------------------------------------------------------------------
\* C18: at every frame boundary (a frame has been stepped and is rendered, or
\* its input is being handled) the bodies registered in the space are exactly
\* those of the live pieces whose state is not WAITING; the scan of
\* Physics.step removes no body, since no frame follows one whose step has
\* left a body at a non-finite position.
C18_SpaceIsLiveReleased ==
    /\ [](pc \in {"input", "draw"} =>
            space = {p \in Live : wm[p].state # WAITING})
    /\ [][pc = "step" => space' = space]_vars

\* a frame is about to be rendered after a step that has left a registered
\* body of a live piece at a non-finite position
C18_Witness ==
    /\ pc = "draw"
    /\ ~game_over
    /\ \E p \in space \cap Live :
          /\ wm[p].state = MOVING
          /\ ~FinitePos(wm[p])

\* ---- C19 --------------------------------------------------------------------
\* C19: in every reachable state every pending pair is made of two distinct
\* pieces, both in the live collection, both not WAITING, of equal level and
\* both flagged merged; every live piece that is flagged merged occurs in
\* exactly one pending pair; the pair a pass is about to visit has both its
\* pieces live; and no WAITING piece is flagged or pending.
C19_PendingPairsSound ==
    /\ \A i \in DOMAIN merge_pairs :
          LET a == merge_pairs[i][1]
              b == merge_pairs[i][2]
          IN  /\ a # b
              /\ a \in Live /\ b \in Live
              /\ wm[a].state # WAITING /\ wm[b].state # WAITING
              /\ wm[a].level = wm[b].level
              /\ wm[a].merged /\ wm[b].merged
    /\ \A p \in Live : wm[p].merged => PairOccurrences(p) = 1
    /\ (pc = "merges" /\ todo # <<>>) =>
          (Head(todo)[1] \in Live /\ Head(todo)[2] \in Live)
    /\ \A p \in DOMAIN wm :
          wm[p].state = WAITING =>
             (~wm[p].merged /\ p \notin PairIds(merge_pairs))

\* a pair of level-1 pieces is pending beside a level-3 piece that has been
\* in contact with them, while a fourth piece waits
C19_Witness ==
    /\ pc = "draw"
    /\ Len(merge_pairs) = 1
    /\ wm[merge_pairs[1][1]].level = 1
    /\ \E q \in space \ PairIds(merge_pairs) :
          wm[q].level = 3 /\ ~wm[q].merged
    /\ wm[waiting_wm].state = WAITING
    /\ ~wm[waiting_wm].merged

\* ---- C20 --------------------------------------------------------------------
\* C20: while the game is not over, can_spawn is true exactly when the
\* tracked piece is WAITING and in the live collection; while can_spawn is
\* false no live piece is WAITING and the counter is positive, and the arrow
\* keys move no piece, the released piece that waiting_wm still refers to
\* included.
C20_SpawnGateTracksWaiting ==
    /\ [](~game_over =>
            (can_spawn <=>
                (wm[waiting_wm].state = WAITING /\ waiting_wm \in Live)))
    /\ [](~can_spawn =>
            /\ \A p \in Live : wm[p].state # WAITING
            /\ cooldown > 0)
    /\ [][(~can_spawn /\ pc = "input" /\ events = <<>>) =>
            \A p \in DOMAIN wm :
                /\ p \in DOMAIN wm'
                /\ wm'[p].x = wm[p].x
                /\ wm'[p].y = wm[p].y
         ]_vars

\* the arrow keys have been read during a cooldown, with the released piece
\* lying within their reach
C20_Witness ==
    /\ pc = "update"
    /\ ~can_spawn
    /\ ~game_over
    /\ cooldown < COOLDOWN_TIME * FPS
    /\ waiting_wm \in space
    /\ wm[waiting_wm].state = MOVING
    /\ wm[waiting_wm].x = 310

====
